---- MODULE Spec2Model ----
(***************************************************************************)
(* Model of the Vulkan query cache (vk_query_cache.cpp): the query slot    *)
(* pool (QueryPool), the host counter lifecycle (HostCounter) and the      *)
(* teardown of the query cache (VKQueryCache), together with the parts of  *)
(* the scheduler, the master semaphore, the resource pool and the device   *)
(* that they consume.                                                      *)
(***************************************************************************)
EXTENDS Integers, Sequences, FiniteSets, TLC

(* ------------------------------- bounds -------------------------------- *)

\* Growth increment of the pool (slots per container), scaled down.
GROW_STEP == 2
\* Number of host counters constructed in one run.
MaxCounters == 3
\* Largest value of the scheduler's current tick.
MaxTick == 2

CounterIds == 1..MaxCounters

\* Fetch statuses of the device: success, device loss, one other failure.
VK_SUCCESS == "VK_SUCCESS"
VK_ERROR_DEVICE_LOST == "VK_ERROR_DEVICE_LOST"
VK_ERROR_OUT_OF_HOST_MEMORY == "VK_ERROR_OUT_OF_HOST_MEMORY"
VkResults == {VK_SUCCESS, VK_ERROR_DEVICE_LOST, VK_ERROR_OUT_OF_HOST_MEMORY}

\* Values a fetch can produce (u64 sample counts, two representatives).
QueryValues == {0, 5}

VARIABLES
    ticks,          \* ResourcePool: tick each ticket was last issued in
    free_iterator,  \* ResourcePool: hint of the next ticket to try
    usage,          \* QueryPool: used-bit per flat index
    pools,          \* QueryPool: native container handles, in creation order
    query_counts,   \* device: queryCount each container was created with
    pools_alive,    \* FALSE once the QueryPool objects have been destroyed
    current_tick,   \* scheduler / master semaphore: tick being recorded
    gpu_tick,       \* master semaphore: last tick the device has completed
    stream,         \* commands recorded and not yet executed by the device
    counters,       \* HostCounter objects by id
    current,        \* counter stream: the active counter (0 = none)
    bq,             \* position and outcome of BlockingQuery
    td,             \* steps of the teardown of VKQueryCache done so far
    fatal,          \* a failed ASSERT has stopped the program
    undefined,      \* a Reserve was issued on a destroyed pool
    reserves,       \* where each counter's slot was reserved from, in order
    commit_used,    \* the last Commit returned a slot whose used-bit was set
    last_reserve    \* the last Reserve the framework called directly

vars == <<ticks, free_iterator, usage, pools, query_counts, pools_alive,
          current_tick,
          gpu_tick, stream, counters, current, bq, td, fatal, undefined,
          reserves, commit_used, last_reserve>>

(* ------------------------- device and semaphore ------------------------ *)

\* The device hands out a fresh opaque handle for each container it creates.
CreateQueryPool(n) == 16 * (n + 1) + 1

\* A handle the device never gave to this pool.
ForeignHandles == {8}

\* MasterSemaphore::IsFree
IsFree(tick, gpu) == gpu >= tick

\* A recorded command has been handed to the device once its batch is flushed.
Submitted(cmd, cur) == cmd.tick < cur

\* The device has executed a command once it completed the command's batch.
Completed(cmd, gpu) == cmd.tick <= gpu

(* ------------------------------ ResourcePool --------------------------- *)

\* The pool's bookkeeping as one value: p.ticks, p.free_iterator, p.usage,
\* p.pools, p.query_counts.  Flat index i lives at sequence position i + 1.
PoolState == [ticks |-> ticks, free_iterator |-> free_iterator,
              usage |-> usage, pools |-> pools, query_counts |-> query_counts]

Repeat(x, n) == [i \in 1..n |-> x]

\* The search lambda of CommitResource: first free ticket in [begin, end).
Search(p, begin, end, gpu) ==
    LET free == {i \in begin..(end - 1) : IsFree(p.ticks[i + 1], gpu)}
    IN  IF free = {} THEN -1
        ELSE CHOOSE i \in free : \A j \in free : i <= j

\* An Allocate that sizes the new container by the end of its range instead
\* of by the length of the range.
AllocateCountEnd(p, begin, end) ==
    [p EXCEPT !.usage = p.usage \o Repeat(FALSE, end - Len(p.usage)),
              !.pools = Append(p.pools, CreateQueryPool(Len(p.pools))),
              !.query_counts = Append(p.query_counts, end)]

\* QueryPool::Allocate, the growth callback.
Allocate(p, begin, end) ==
    [p EXCEPT !.usage = p.usage \o Repeat(FALSE, end - Len(p.usage)),
              !.pools = Append(p.pools, CreateQueryPool(Len(p.pools))),
              !.query_counts = Append(p.query_counts, end - begin)]

\* ResourcePool::Grow
Grow(p) ==
    LET old_capacity == Len(p.ticks)
        q == [p EXCEPT !.ticks = p.ticks \o Repeat(0, GROW_STEP)]
    IN  Allocate(q, old_capacity, old_capacity + GROW_STEP)

\* ResourcePool::CommitResource: the ticket issued and the pool afterwards.
CommitResource(p, cur, gpu) ==
    LET first  == Search(p, p.free_iterator, Len(p.ticks), gpu)
        second == IF first # -1 THEN first
                  ELSE Search(p, 0, p.free_iterator, gpu)
        grow   == second = -1
        found  == IF grow THEN Len(p.ticks) ELSE second
        q      == IF grow THEN Grow(p) ELSE p
    IN  [index |-> found, grew |-> grow,
         p |-> [q EXCEPT !.ticks[found + 1] = cur,
                         !.free_iterator = (found + 1) % Len(q.ticks)]]

(* ------------------------------- QueryPool ----------------------------- *)

RECURSIVE CommitLoop(_, _, _, _)
\* The do-while loop of QueryPool::Commit; n counts the tickets requested.
CommitLoop(p, cur, gpu, n) ==
    LET r == CommitResource(p, cur, gpu)
    IN  IF r.p.usage[r.index + 1]
        THEN CommitLoop(r.p, cur, gpu, n + 1)
        ELSE [p |-> [r.p EXCEPT !.usage[r.index + 1] = TRUE],
              index |-> r.index, requests |-> n + 1,
              query |-> <<r.p.pools[(r.index \div GROW_STEP) + 1],
                          r.index % GROW_STEP>>]

\* A Commit that takes the first ticket without looking at its used-bit.
CommitFirstTicket(p, cur, gpu) ==
    LET r == CommitResource(p, cur, gpu)
    IN  [p |-> [r.p EXCEPT !.usage[r.index + 1] = TRUE],
         index |-> r.index, requests |-> 1,
         query |-> <<r.p.pools[(r.index \div GROW_STEP) + 1],
                     r.index % GROW_STEP>>]

\* A Commit that forgets the container of the ticket: the slot it hands out
\* is always one of the first container.
CommitFirstContainer(p, cur, gpu) ==
    LET r == CommitLoop(p, cur, gpu, 0)
    IN  [r EXCEPT !.query = <<r.p.pools[1], r.index % GROW_STEP>>]

\* QueryPool::Commit
Commit(p, cur, gpu) == CommitLoop(p, cur, gpu, 0)

\* std::find_if over pools: 0-based position of the handle, Len if absent.
FindPool(ps, handle) ==
    LET hits == {i \in 0..(Len(ps) - 1) : ps[i + 1] = handle}
    IN  IF hits = {} THEN Len(ps)
        ELSE CHOOSE i \in hits : \A j \in hits : i <= j

\* A Reserve that forgets the container position in the flat index.
ReserveOffsetOnly(p, query) ==
    LET pool_index == FindPool(p.pools, query[1])
        found == pool_index # Len(p.pools)
    IN  [fatal |-> ~found,
         p |-> IF found THEN [p EXCEPT !.usage[query[2] + 1] = FALSE] ELSE p]

\* A Reserve that finds the slot but leaves its used-bit set.
ReserveKeepsBit(p, query) ==
    LET pool_index == FindPool(p.pools, query[1])
        found == pool_index # Len(p.pools)
    IN  [fatal |-> ~found, p |-> p]

\* A Reserve whose check of the handle is compiled out: an unknown handle
\* goes unnoticed.
ReserveUnchecked(p, query) ==
    LET pool_index == FindPool(p.pools, query[1])
        found == pool_index # Len(p.pools)
    IN  [fatal |-> FALSE,
         p |-> IF found
               THEN [p EXCEPT !.usage[pool_index * GROW_STEP + query[2] + 1] = FALSE]
               ELSE p]

\* QueryPool::Reserve: a handle of no container fails the ASSERT, which is
\* fatal; otherwise the used-bit of the slot is cleared.
Reserve(p, query) ==
    LET pool_index == FindPool(p.pools, query[1])
        found == pool_index # Len(p.pools)
    IN  [fatal |-> ~found,
         p |-> IF found
               THEN [p EXCEPT !.usage[pool_index * GROW_STEP + query[2] + 1] = FALSE]
               ELSE p]

\* Flat index of a slot the pool owns: container position * increment + offset.
FlatIndex(ps, query) == FindPool(ps, query[1]) * GROW_STEP + query[2]

(* ------------------------------ HostCounter ---------------------------- *)

Live(c) == counters[c].st \in {"Created", "Ended", "Resolved"}

LiveCounters == {c \in CounterIds : Live(c)}

\* The control flag of a begin that asks for precise sample counts.
VK_QUERY_CONTROL_PRECISE_BIT == "VK_QUERY_CONTROL_PRECISE_BIT"

\* A command recorded in the scheduler's stream: the operation, the counter
\* recording it, the slot, the tick of its batch and the control flags.
Cmd(op, c, query, tick) ==
    [op |-> op, by |-> c, query |-> query, tick |-> tick, flags |-> {}]

\* A constructor that begins the query before resetting its slot.
CtorCommandsBeginFirst(c, query, tick) ==
    <<[Cmd("BeginQuery", c, query, tick)
          EXCEPT !.flags = {VK_QUERY_CONTROL_PRECISE_BIT}],
      Cmd("ResetQueryPool", c, query, tick)>>

\* The callback HostCounter's constructor records: reset, then begin.
CtorCommands(c, query, tick) ==
    <<Cmd("ResetQueryPool", c, query, tick),
      [Cmd("BeginQuery", c, query, tick)
          EXCEPT !.flags = {VK_QUERY_CONTROL_PRECISE_BIT}]>>

\* The callback HostCounter::EndQuery records.
EndCommands(c, query, tick) == <<Cmd("EndQuery", c, query, tick)>>

\* A destructor that forgets to give the slot back.
DtorReservesNone(ctr) == <<>>

\* The Reserve calls ~HostCounter issues, in order.
DtorReserves(ctr) == <<ctr.query>>

\* A flush condition that misses the counter recorded in the current tick.
NeedsFlushStrict(tick, cur) == tick > cur

\* The condition on which BlockingQuery flushes the scheduler.
NeedsFlush(tick, cur) == tick >= cur

\* A switch without the device-lost case: the loss is thrown, not reported.
ResultSwitchNoReport(result) ==
    CASE result = VK_SUCCESS -> <<"return">>
      [] OTHER -> <<"throw">>

\* A switch whose default case returns the data instead of throwing.
ResultSwitchSwallow(result) ==
    CASE result = VK_SUCCESS -> <<"return">>
      [] result = VK_ERROR_DEVICE_LOST -> <<"ReportLoss", "throw">>
      [] OTHER -> <<"return">>

\* The switch of BlockingQuery on the fetch status: what happens, in order.
ResultSwitch(result) ==
    CASE result = VK_SUCCESS -> <<"return">>
      [] result = VK_ERROR_DEVICE_LOST -> <<"ReportLoss", "throw">>
      [] OTHER -> <<"throw">>

\* The commands of the stream the device has not executed after completing
\* every batch up to gpu.
Unexecuted(cmds, gpu) ==
    LET keep == {i \in 1..Len(cmds) : ~Completed(cmds[i], gpu)}
        F[i \in 0..Len(cmds)] ==
            IF i = 0 THEN <<>>
            ELSE IF i \in keep THEN Append(F[i - 1], cmds[i]) ELSE F[i - 1]
    IN  F[Len(cmds)]

\* The device has the result of a counter's query once it executed its end.
Available(c) ==
    /\ counters[c].st \in {"Ended", "Resolved"}
    /\ \A i \in 1..Len(stream) :
           ~(stream[i].by = c /\ stream[i].op = "EndQuery")

(* --------------------------------- Init -------------------------------- *)

NoCounter == [st |-> "None", query |-> <<0, 0>>, tick |-> 0]

\* A destroyed counter: its fields are gone with it.
Released == [st |-> "Released", query |-> <<0, 0>>, tick |-> 0]

BqIdle == [pc |-> "idle", ctr |-> 0, events |-> <<>>, flushed |-> FALSE,
           tick |-> 0, cur |-> 0, unsubmitted |-> {},
           result |-> "none", fetched |-> 0, value |-> 0, thrown |-> "none"]

Init ==
    /\ ticks = <<>>
    /\ free_iterator = 0
    /\ usage = <<>>
    /\ pools = <<>>
    /\ query_counts = <<>>
    /\ pools_alive = TRUE
    /\ current_tick = 1
    /\ gpu_tick = 0
    /\ stream = <<>>
    /\ counters = [c \in CounterIds |-> NoCounter]
    /\ current = 0
    /\ bq = BqIdle
    /\ td = <<>>
    /\ fatal = FALSE
    /\ undefined = FALSE
    /\ reserves = [c \in CounterIds |-> <<>>]
    /\ commit_used = FALSE
    /\ last_reserve = [query |-> <<0, 0>>, calls |-> 0]

\* The rendering thread is free to start an operation.
Running == td = <<>> /\ ~fatal /\ bq.pc = "idle"

(* ------------------------- scheduler and device ------------------------ *)

\* VKScheduler::Flush: the pending batch is submitted, a new tick starts.
Flush ==
    /\ Running
    /\ current_tick < MaxTick
    /\ current_tick' = current_tick + 1
    /\ UNCHANGED <<ticks, free_iterator, usage, pools, query_counts, pools_alive, gpu_tick,
                   stream, counters, current, bq, td, fatal, undefined,
                   reserves, last_reserve, commit_used>>

\* The device completes the oldest submitted batch and its commands.
DeviceTick ==
    /\ gpu_tick + 1 < current_tick
    /\ gpu_tick' = gpu_tick + 1
    /\ stream' = Unexecuted(stream, gpu_tick + 1)
    /\ UNCHANGED <<ticks, free_iterator, usage, pools, query_counts, pools_alive,
                   current_tick, counters, current, bq, td, fatal,
                   undefined, reserves, last_reserve, commit_used>>

(* ------------------------- HostCounter operations ---------------------- *)

\* HostCounter::HostCounter: allocate a slot, store the tick, record
\* reset + begin.
Construct(c) ==
    /\ Running
    /\ counters[c].st = "None"
    /\ \A d \in CounterIds : d < c => counters[d].st # "None"
    /\ LET r == Commit(PoolState, current_tick, gpu_tick)
       IN  /\ ticks' = r.p.ticks
           /\ free_iterator' = r.p.free_iterator
           /\ usage' = r.p.usage
           /\ pools' = r.p.pools
           /\ query_counts' = r.p.query_counts
           /\ counters' = [counters EXCEPT ![c] =
                  [st |-> "Created", query |-> r.query, tick |-> current_tick]]
           /\ stream' = stream \o CtorCommands(c, r.query, current_tick)
           /\ commit_used' = (r.index < Len(usage) /\ usage[r.index + 1])
    /\ current' = c
    /\ UNCHANGED <<pools_alive, current_tick, gpu_tick, bq, td, fatal,
                   undefined, reserves, last_reserve>>

\* An EndQuery that also flushes the scheduler.
EndQueryFlushes(c) ==
    /\ Running
    /\ counters[c].st = "Created"
    /\ current_tick < MaxTick
    /\ stream' = stream \o EndCommands(c, counters[c].query, current_tick)
    /\ counters' = [counters EXCEPT ![c].st = "Ended"]
    /\ current' = IF current = c THEN 0 ELSE current
    /\ current_tick' = current_tick + 1
    /\ UNCHANGED <<ticks, free_iterator, usage, pools, query_counts, pools_alive,
                   gpu_tick, bq, td, fatal, undefined,
                   reserves, last_reserve, commit_used>>

\* HostCounter::EndQuery
EndQuery(c) ==
    /\ Running
    /\ counters[c].st = "Created"
    /\ stream' = stream \o EndCommands(c, counters[c].query, current_tick)
    /\ counters' = [counters EXCEPT ![c].st = "Ended"]
    /\ current' = IF current = c THEN 0 ELSE current
    /\ UNCHANGED <<ticks, free_iterator, usage, pools, query_counts, pools_alive,
                   current_tick, gpu_tick, bq, td, fatal, undefined,
                   reserves, last_reserve, commit_used>>

\* HostCounter::BlockingQuery up to the fetch: flush if needed, then call
\* GetQueryResults with the wait bit and block in it.
BlockingQueryCall(c) ==
    /\ Running
    /\ counters[c].st \in {"Created", "Ended"}
    /\ LET flush == NeedsFlush(counters[c].tick, current_tick)
           cur   == IF flush THEN current_tick + 1 ELSE current_tick
       IN  /\ flush => current_tick < MaxTick
           /\ current_tick' = cur
           /\ bq' = [BqIdle EXCEPT
                  !.pc = "fetch", !.ctr = c,
                  !.events = (IF flush THEN <<"Flush">> ELSE <<>>)
                             \o <<"GetQueryResults">>,
                  !.flushed = flush,
                  !.tick = counters[c].tick, !.cur = current_tick,
                  !.unsubmitted = {stream[i].op : i \in
                      {j \in 1..Len(stream) : /\ stream[j].by = c
                                              /\ ~Submitted(stream[j], cur)}}]
    /\ UNCHANGED <<ticks, free_iterator, usage, pools, query_counts, pools_alive, gpu_tick,
                   stream, counters, current, td, fatal, undefined,
                   reserves, last_reserve, commit_used>>

\* The fetch returns and BlockingQuery's switch runs.  A success needs the
\* device to have produced the result; a failure can come at any time.
BlockingQueryReturn(result, data) ==
    /\ bq.pc = "fetch"
    /\ result = VK_SUCCESS => Available(bq.ctr)
    /\ LET path == ResultSwitch(result)
           last == path[Len(path)]
       IN  /\ bq' = [bq EXCEPT !.pc = "done",
                               !.events = bq.events \o path,
                               !.result = result,
                               !.fetched = IF result = VK_SUCCESS THEN data ELSE 0,
                               !.value = IF last = "return" THEN data ELSE 0,
                               !.thrown = IF last = "throw" THEN result
                                          ELSE "none"]
           /\ counters' = IF last = "return" /\ result = VK_SUCCESS
                          THEN [counters EXCEPT ![bq.ctr].st = "Resolved"]
                          ELSE counters
    /\ UNCHANGED <<ticks, free_iterator, usage, pools, query_counts, pools_alive,
                   current_tick, gpu_tick, stream, current, td, fatal,
                   undefined, reserves, last_reserve, commit_used>>

\* The caller of BlockingQuery takes the value or the error and goes on.
Resume ==
    /\ bq.pc = "done"
    /\ bq' = BqIdle
    /\ UNCHANGED <<ticks, free_iterator, usage, pools, query_counts, pools_alive,
                   current_tick, gpu_tick, stream, counters, current, td,
                   fatal, undefined, reserves, last_reserve, commit_used>>

RECURSIVE ApplyReserves(_, _)
\* QueryPool::Reserve for each slot of a sequence, in order, until one is fatal.
ApplyReserves(p, qs) ==
    IF qs = <<>> THEN [fatal |-> FALSE, p |-> p]
    ELSE LET r == Reserve(p, Head(qs))
         IN  IF r.fatal THEN r ELSE ApplyReserves(r.p, Tail(qs))

Count(qs, q) == Cardinality({i \in 1..Len(qs) : qs[i] = q})

\* What the Reserve calls of a destroyed counter add to the record of its
\* slot: one entry, naming the place, per Reserve of the counter's own slot.
Reserved(ctr, place) == Repeat(place, Count(DtorReserves(ctr), ctr.query))

RECURSIVE DtorReservesOf(_)
\* The Reserve calls issued when a set of counters is destroyed (by id).
DtorReservesOf(cs) ==
    IF cs = {} THEN <<>>
    ELSE LET c == CHOOSE x \in cs : \A y \in cs : x <= y
         IN  DtorReserves(counters[c]) \o DtorReservesOf(cs \ {c})

\* The counters of a set are destroyed: their Reserve calls reach the pool.
Release(cs, place) ==
    LET qs == DtorReservesOf(cs)
        r  == ApplyReserves(PoolState, qs)
    IN  /\ usage' = r.p.usage
        /\ fatal' = r.fatal
        /\ reserves' = [c \in CounterIds |->
               IF c \in cs THEN reserves[c] \o Reserved(counters[c], place)
               ELSE reserves[c]]
        /\ counters' = [c \in CounterIds |->
               IF c \in cs THEN Released
               ELSE counters[c]]
        /\ current' = IF current \in cs THEN 0 ELSE current

\* HostCounter::~HostCounter, by the caller dropping the counter.
Destroy(c) ==
    /\ Running
    /\ Live(c)
    /\ Release({c}, "Destroy")
    /\ UNCHANGED <<ticks, free_iterator, pools, query_counts, pools_alive, current_tick,
                   gpu_tick, stream, bq, td, undefined, last_reserve, commit_used>>

\* VKQueryCache::Reserve called by the framework with a slot of a container
\* the pool does not own.
ReserveUnowned(handle, offset) ==
    /\ Running
    /\ LET r == Reserve(PoolState, <<handle, offset>>)
       IN  /\ fatal' = r.fatal
           /\ usage' = r.p.usage
           /\ last_reserve' = [query |-> <<handle, offset>>,
                               calls |-> 1]
    /\ UNCHANGED <<ticks, free_iterator, pools, query_counts, pools_alive, current_tick,
                   gpu_tick, stream, counters, current, bq, td, undefined,
                   reserves, commit_used>>

(* ------------------------------- teardown ------------------------------ *)

\* A destructor body that finalizes the stream and does not reset it.
DtorBodyNoReset == <<"Update">>

\* The body of ~VKQueryCache for the one query type: Update(false), Reset.
DtorBody == <<"Update", "Reset">>

\* After the body the members (the pools) and then the base are destroyed.
TeardownOrder == DtorBody \o <<"DestroyPools", "DestroyBase">>

NextStep(step) ==
    /\ ~fatal
    /\ bq.pc = "idle"
    /\ Len(td) < Len(TeardownOrder)
    /\ TeardownOrder[Len(td) + 1] = step
    /\ td' = Append(td, step)

\* stream.Update(false): the active counter, if any, is ended.
StreamUpdate ==
    /\ NextStep("Update")
    /\ IF current # 0 /\ counters[current].st = "Created"
       THEN /\ stream' = stream \o
                   EndCommands(current, counters[current].query, current_tick)
            /\ counters' = [counters EXCEPT ![current].st = "Ended"]
       ELSE UNCHANGED <<stream, counters>>
    /\ current' = 0
    /\ UNCHANGED <<ticks, free_iterator, usage, pools, query_counts, pools_alive,
                   current_tick, gpu_tick, bq, fatal, undefined, reserves,
                   last_reserve, commit_used>>

\* stream.Reset(): the stream lets go of its counters, which destroys them.
StreamReset ==
    /\ NextStep("Reset")
    /\ Release(LiveCounters, "Reset")
    /\ UNCHANGED <<ticks, free_iterator, pools, query_counts, pools_alive, current_tick,
                   gpu_tick, stream, bq, undefined, last_reserve, commit_used>>

\* The query_pools member is destroyed.
DestroyPools ==
    /\ NextStep("DestroyPools")
    /\ pools_alive' = FALSE
    /\ UNCHANGED <<ticks, free_iterator, usage, pools, query_counts, current_tick, gpu_tick,
                   stream, counters, current, bq, fatal, undefined,
                   reserves, last_reserve, commit_used>>

\* The base class is destroyed, and with it every counter still alive: their
\* destructors call Reserve on a pool that no longer exists.
DestroyBase ==
    /\ NextStep("DestroyBase")
    /\ undefined' = (undefined \/ (LiveCounters # {} /\ ~pools_alive))
    /\ reserves' = [c \in CounterIds |->
           IF Live(c) THEN reserves[c] \o Reserved(counters[c], "Base")
           ELSE reserves[c]]
    /\ counters' = [c \in CounterIds |->
           IF Live(c) THEN Released
           ELSE counters[c]]
    /\ current' = 0
    /\ UNCHANGED <<ticks, free_iterator, usage, pools, query_counts, pools_alive,
                   current_tick, gpu_tick, stream, bq, fatal, last_reserve, commit_used>>

(* ----------------------------- specification --------------------------- *)

Next ==
    \/ Flush
    \/ DeviceTick
    \/ \E c \in CounterIds : Construct(c)
    \/ \E c \in CounterIds : EndQuery(c)
    \/ \E c \in CounterIds : BlockingQueryCall(c)
    \/ \E result \in VkResults, data \in QueryValues :
           BlockingQueryReturn(result, data)
    \/ Resume
    \/ \E c \in CounterIds : Destroy(c)
    \/ StreamUpdate
    \/ StreamReset
    \/ DestroyPools
    \/ DestroyBase

Spec == Init /\ [][Next]_vars

\* The same program with a framework that also calls VKQueryCache::Reserve
\* with slots the pool never handed out.
NextUnowned ==
    \/ Next
    \/ \E handle \in ForeignHandles, offset \in 0..(GROW_STEP - 1) :
           ReserveUnowned(handle, offset)

SpecUnowned == Init /\ [][NextUnowned]_vars

\* The pool and the counters that use it, without BlockingQuery and without
\* the teardown: every Commit and Reserve, every flush and device step.
NextPool ==
    \/ Flush
    \/ DeviceTick
    \/ \E c \in CounterIds : Construct(c)
    \/ \E c \in CounterIds : EndQuery(c)
    \/ \E c \in CounterIds : Destroy(c)

SpecPool == Init /\ [][NextPool]_vars

\* The counters with BlockingQuery, without the teardown.
NextQuery ==
    \/ Flush
    \/ DeviceTick
    \/ \E c \in CounterIds : Construct(c)
    \/ \E c \in CounterIds : EndQuery(c)
    \/ \E c \in CounterIds : Destroy(c)
    \/ \E c \in CounterIds : BlockingQueryCall(c)
    \/ \E result \in VkResults, data \in QueryValues :
           BlockingQueryReturn(result, data)
    \/ Resume

SpecQuery == Init /\ [][NextQuery]_vars

\* The fetch returns the value once the device has it.
FetchSucceeds == \E data \in QueryValues : BlockingQueryReturn(VK_SUCCESS, data)

\* The counter operations with a device that eventually executes every batch
\* submitted to it (and none that is not submitted: the guard of DeviceTick)
\* and a fetch that eventually returns a result the device has produced.
SpecLive ==
    /\ Init
    /\ [][NextQuery]_vars
    /\ WF_vars(DeviceTick)
    /\ WF_vars(FetchSucceeds)

TypeOK ==
    /\ Len(usage) = Len(ticks)
    /\ gpu_tick < current_tick
    /\ current_tick <= MaxTick

(* -------------------------------- claims ------------------------------- *)

Positions(events, e) == {i \in 1..Len(events) : events[i] = e}

\* C1: Commit never returns a slot whose used-bit is set, so the slots of the
\* live counters are pairwise distinct.
C1_CommitReturnsFreeSlot ==
    /\ ~commit_used
    /\ \A c, d \in LiveCounters :
           c # d => counters[c].query # counters[d].query

\* C1 witness: the ticket of a live counter's slot was issued again while the
\* counter still holds the slot, and the later counter got another slot.
C1_Witness ==
    \E c, d \in LiveCounters :
        /\ c < d
        /\ ticks[FlatIndex(pools, counters[c].query) + 1] > counters[c].tick
        /\ counters[c].query # counters[d].query

\* C2: a slot's used-bit is set if and only if a live counter owns the slot.
C2_UsedIffOwned ==
    \A i \in 0..(Len(usage) - 1) :
        usage[i + 1] <=>
            \E c \in LiveCounters : FlatIndex(pools, counters[c].query) = i

\* C2 witness: a second container exists, one of its slots is owned, and a
\* slot given back by a destroyed counter is free again.
C2_Witness ==
    /\ Len(pools) = 2
    /\ \E c \in LiveCounters :
           FlatIndex(pools, counters[c].query) >= GROW_STEP
    /\ \E c \in CounterIds : counters[c].st = "Released"
    /\ \E i \in 1..GROW_STEP : ~usage[i]

\* C3: when Commit hands a slot to a new counter, the device has executed
\* every command recorded for that slot by a previous owner.
C3_NoReuseBeforeDeviceDone ==
    [][\A c \in CounterIds :
          (counters[c].st = "None" /\ counters'[c].st = "Created") =>
              \A i \in 1..Len(stream) : stream[i].query # counters'[c].query]_vars

\* C4: a counter's slot is reserved exactly once, by the counter's
\* destruction, and never while the counter is alive or not yet built.
C4_ReservedOnceAtDestruction ==
    \A c \in CounterIds :
        /\ counters[c].st = "Released" => Len(reserves[c]) = 1
        /\ counters[c].st # "Released" => reserves[c] = <<>>

\* C4 witness: one counter was destroyed after a failed BlockingQuery is
\* over, another while a counter is still alive.
C4_Witness ==
    /\ counters[1].st = "Released"
    /\ reserves[1] = <<"Destroy">>
    /\ \E c \in CounterIds : counters[c].st = "Ended"
    /\ \E c \in CounterIds : counters[c].st = "Created"

\* C5: BlockingQuery flushes if and only if the counter's tick is >= the
\* current tick at the call, and the flush comes before the fetch.
C5_FlushIffTickNotOlder ==
    bq.pc # "idle" =>
        /\ (current_tick = bq.cur + 1) <=> (bq.tick >= bq.cur)
        /\ (current_tick = bq.cur) <=> (bq.tick < bq.cur)
        /\ (bq.tick >= bq.cur) <=> (Positions(bq.events, "Flush") # {})
        /\ \A i \in Positions(bq.events, "Flush") :
               \A j \in Positions(bq.events, "GetQueryResults") : i < j

\* C5 witness: BlockingQuery on a counter recorded in the current tick has
\* flushed and is in the fetch.
C5_Witness ==
    /\ bq.pc = "fetch"
    /\ bq.tick >= bq.cur
    /\ bq.events = <<"Flush", "GetQueryResults">>

\* C6: when BlockingQuery performs the fetch, every command of the counter
\* (reset, begin and, if recorded, end) has been submitted to the device.
C6_SubmittedAtFetch == bq.pc = "fetch" => bq.unsubmitted = {}

\* C7: on device loss the loss is reported exactly once, before the error
\* is thrown, and the error carries the device-lost status.
C7_LossReportedBeforeThrow ==
    (bq.pc = "done" /\ bq.result = VK_ERROR_DEVICE_LOST) =>
        /\ Cardinality(Positions(bq.events, "ReportLoss")) = 1
        /\ Cardinality(Positions(bq.events, "throw")) = 1
        /\ \A i \in Positions(bq.events, "ReportLoss") :
               \A j \in Positions(bq.events, "throw") : i < j
        /\ bq.thrown = VK_ERROR_DEVICE_LOST

\* C7 witness: a BlockingQuery has ended on a device loss.
C7_Witness == bq.pc = "done" /\ bq.result = VK_ERROR_DEVICE_LOST

\* C8: a BlockingQuery performs one fetch and ends in the one outcome its
\* status decides: the value, a reported device loss, or the thrown status.
C8_OneFetchOneOutcome ==
    bq.pc = "done" =>
        /\ Cardinality(Positions(bq.events, "GetQueryResults")) = 1
        /\ Cardinality(Positions(bq.events, "return")
                       \cup Positions(bq.events, "throw")) = 1
        /\ bq.events[Len(bq.events)] \in {"return", "throw"}
        /\ bq.result = VK_SUCCESS =>
               /\ bq.events[Len(bq.events)] = "return"
               /\ bq.value = bq.fetched
               /\ bq.thrown = "none"
               /\ Positions(bq.events, "ReportLoss") = {}
        /\ bq.result = VK_ERROR_DEVICE_LOST =>
               /\ bq.events[Len(bq.events)] = "throw"
               /\ bq.thrown = bq.result
               /\ Positions(bq.events, "ReportLoss") # {}
        /\ bq.result \notin {VK_SUCCESS, VK_ERROR_DEVICE_LOST} =>
               /\ bq.events[Len(bq.events)] = "throw"
               /\ bq.thrown = bq.result
               /\ Positions(bq.events, "ReportLoss") = {}

\* C8 witness: a BlockingQuery has ended on a status that is neither success
\* nor device loss, and another possible end is a fetched value.
C8_Witness ==
    /\ bq.pc = "done"
    /\ bq.result = VK_ERROR_OUT_OF_HOST_MEMORY
    /\ Available(bq.ctr)

\* C9: a Reserve with a handle of none of the pool's containers is fatal.
C9_UnownedReserveIsFatal ==
    (last_reserve.calls > 0
        /\ FindPool(pools, last_reserve.query[1]) = Len(pools)) => fatal

\* C9 witness: Reserve was called with a foreign handle on a pool that has
\* containers and owned slots.
C9_Witness ==
    /\ last_reserve.calls > 0
    /\ Len(pools) > 0
    /\ LiveCounters # {}
    /\ \A i \in 1..Len(pools) : pools[i] # last_reserve.query[1]

\* C10: the teardown finalizes and resets the stream before the pools and
\* the base are destroyed, so no Reserve reaches a destroyed pool.
C10_CountersGoBeforePools ==
    /\ ~undefined
    /\ \A c \in CounterIds : Positions(reserves[c], "Base") = {}
    /\ ~pools_alive =>
           /\ LiveCounters = {}
           /\ Len(td) >= 3
           /\ td[1] = "Update" /\ td[2] = "Reset" /\ td[3] = "DestroyPools"

\* C10 witness: the teardown is over and its Reset destroyed a counter.
C10_Witness ==
    /\ Len(td) = Len(TeardownOrder)
    /\ ~pools_alive
    /\ \E c \in CounterIds : reserves[c] = <<"Reset">>

\* A step in which counter c is constructed (and Commit runs).
ConstructStep(c) == counters[c].st = "None" /\ counters'[c].st = "Created"

\* A step in which counter c is destroyed (and Reserve runs).
DestroyStep(c) == Live(c) /\ counters'[c].st = "Released"

\* Tickets the ticket pool can issue whose slot is unused.
IssuableUnused ==
    {i \in 0..(Len(ticks) - 1) : IsFree(ticks[i + 1], gpu_tick) /\ ~usage[i + 1]}

\* Tickets issued in a step: every issue stamps the ticket with the current
\* tick, which no issuable ticket carries.
TicketsIssued ==
    {i \in 0..(Len(ticks') - 1) :
        IF i < Len(ticks) THEN ticks'[i + 1] # ticks[i + 1]
        ELSE ticks'[i + 1] # 0}

\* C11: every Commit ends after at most one ticket request per ticket plus
\* one and returns a slot of the pool; when no ticket is issuable and unused
\* the pool grows by one container of GROW_STEP slots and the slot returned
\* is in the new container.
C11_ExhaustionGrows ==
    [][\A c \in CounterIds : ConstructStep(c) =>
          LET q == counters'[c].query
          IN  /\ Cardinality(TicketsIssued) \in 1..(Len(ticks) + 1)
              /\ FindPool(pools', q[1]) < Len(pools')
              /\ q[2] \in 0..(GROW_STEP - 1)
              /\ usage'[FlatIndex(pools', q) + 1]
              /\ Len(pools') \in {Len(pools), Len(pools) + 1}
              /\ IssuableUnused = {} =>
                     /\ Len(pools') = Len(pools) + 1
                     /\ Len(usage') = Len(usage) + GROW_STEP
                     /\ query_counts'[Len(pools')] = GROW_STEP
                     /\ FindPool(pools', q[1]) = Len(pools)]_vars

\* C11 witness: the pool grew for counter 3 although a slot of the first
\* container is unused: the device has completed nothing, so no ticket of
\* the first container could be issued.
C11_Witness ==
    /\ Len(pools) = 2
    /\ gpu_tick = 0
    /\ \E i \in 1..GROW_STEP : ~usage[i]
    /\ \E c \in LiveCounters : FlatIndex(pools, counters[c].query) >= GROW_STEP

\* The counters constructed so far: one Commit each.
Constructed == {c \in CounterIds : counters[c].st # "None"}

\* C12: after exactly GROW_STEP + 1 commits and no Reserve the pool holds two
\* containers of GROW_STEP slots each and the last commit returned flat
\* index GROW_STEP, the first slot of the second container.
C12_SecondContainerAfterGPlusOne ==
    (/\ Cardinality(Constructed) = GROW_STEP + 1
     /\ GROW_STEP + 1 \in CounterIds
     /\ \A c \in CounterIds : reserves[c] = <<>> /\ counters[c].st # "Released")
    => /\ Len(pools) = 2
       /\ query_counts = <<GROW_STEP, GROW_STEP>>
       /\ Len(usage) = 2 * GROW_STEP
       /\ counters[GROW_STEP + 1].query = <<pools[2], 0>>
       /\ FlatIndex(pools, counters[GROW_STEP + 1].query) = GROW_STEP

\* C12 witness: GROW_STEP + 1 counters are alive, nothing was reserved, and
\* the device had completed the tick of the first commit before a later one,
\* which was issued the first counter's ticket again and passed it over.
C12_Witness ==
    /\ Cardinality(LiveCounters) = GROW_STEP + 1
    /\ \A c \in CounterIds : reserves[c] = <<>>
    /\ ticks[FlatIndex(pools, counters[1].query) + 1] > counters[1].tick

\* Sum of the capacities of the containers created so far.
RECURSIVE TotalCapacity(_)
TotalCapacity(counts) ==
    IF counts = <<>> THEN 0 ELSE Head(counts) + TotalCapacity(Tail(counts))

\* A step in which the pool grows: Allocate(begin, end) ran with
\* begin = Len(usage) and end = Len(usage').
GrowthStep == Len(pools') # Len(pools)

\* The shape of the pool: one used-bit per slot of every container, and
\* containers of GROW_STEP slots each.
PoolShape ==
    /\ Len(usage) = TotalCapacity(query_counts)
    /\ Len(usage) = GROW_STEP * Len(pools)
    /\ Len(usage) = Len(ticks)
    /\ Len(query_counts) = Len(pools)
    /\ \A i \in 1..Len(query_counts) : query_counts[i] = GROW_STEP

\* C13: in every state before the pools are destroyed the used-bit sequence
\* is as long as the total capacity of the containers, which is GROW_STEP
\* times their number, and every container has capacity GROW_STEP; every
\* growth calls Allocate(begin, end) once with begin a multiple of GROW_STEP
\* and end = begin + GROW_STEP; the container count and the bit-sequence
\* length never decrease.
C13_WholeContainers ==
    /\ [](pools_alive => PoolShape)
    /\ [][pools_alive' =>
            /\ Len(pools') >= Len(pools)
            /\ Len(usage') >= Len(usage)
            /\ GrowthStep =>
                   /\ Len(pools') = Len(pools) + 1
                   /\ Len(usage) % GROW_STEP = 0
                   /\ Len(usage') = Len(usage) + GROW_STEP
                   /\ query_counts'[Len(pools')] = Len(usage') - Len(usage)]_vars

\* C13 witness: the pool has grown twice and slots of both containers are
\* in use.
C13_Witness ==
    /\ Len(pools) = 2
    /\ query_counts = <<GROW_STEP, GROW_STEP>>
    /\ \E i \in 1..GROW_STEP : usage[i] /\ usage[GROW_STEP + i]

\* C14: slots are recycled. Destroying a counter clears the used-bit of its
\* slot, and a Commit that finds a ticket the ticket pool can issue with its
\* slot unused returns such a slot without growing the pool: a slot given
\* back by Reserve is handed out again once its ticket is issued again.
C14_SlotsRecycled ==
    [][\A c \in CounterIds :
          /\ DestroyStep(c) =>
                 /\ usage[FlatIndex(pools, counters[c].query) + 1]
                 /\ ~usage'[FlatIndex(pools, counters[c].query) + 1]
          /\ (ConstructStep(c) /\ IssuableUnused # {}) =>
                 /\ ~GrowthStep
                 /\ FlatIndex(pools', counters'[c].query) \in IssuableUnused]_vars

\* C14 witness: with a single container of GROW_STEP slots, a counter built
\* after GROW_STEP others is alive, and an earlier one gave its slot back: the
\* Commit of the later counter returned a released slot and the pool did not
\* grow.
C14_Witness ==
    /\ Len(pools) = 1
    /\ \E c \in LiveCounters :
           /\ c > GROW_STEP
           /\ \E d \in 1..(c - 1) : reserves[d] = <<"Destroy">>

\* A step in which counter c ends its query through HostCounter::EndQuery.
EndQueryStep(c) ==
    /\ counters[c].st = "Created"
    /\ counters'[c].st = "Ended"
    /\ td' = td

\* Positions of the commands of one kind a counter has in the stream.
CmdsOf(cmds, c, op) == {i \in 1..Len(cmds) : cmds[i].by = c /\ cmds[i].op = op}

\* The recorded stream is well formed: every begin directly follows the
\* reset of the same slot, recorded by the same counter in the same batch,
\* and no end of a counter comes before the counter's begin.
StreamWellFormed ==
    /\ \A i \in 1..Len(stream) : stream[i].op = "BeginQuery" =>
           /\ i > 1
           /\ stream[i - 1] = Cmd("ResetQueryPool", stream[i].by,
                                  stream[i].query, stream[i].tick)
           /\ stream[i].flags = {VK_QUERY_CONTROL_PRECISE_BIT}
    /\ \A c \in CounterIds :
           /\ \A e \in CmdsOf(stream, c, "EndQuery"),
                 b \in CmdsOf(stream, c, "BeginQuery") :
                    b < e /\ stream[b].query = stream[e].query
           /\ Cardinality(CmdsOf(stream, c, "BeginQuery")) <= 1
           /\ Cardinality(CmdsOf(stream, c, "EndQuery")) <= 1
           /\ counters[c].st = "None" => CmdsOf(stream, c, "BeginQuery") = {}
           /\ counters[c].st \in {"None", "Created"} =>
                  CmdsOf(stream, c, "EndQuery") = {}
           /\ Live(c) => \A b \in CmdsOf(stream, c, "BeginQuery") :
                  /\ stream[b].tick = counters[c].tick
                  /\ stream[b].query = counters[c].query

\* C15: constructing a counter appends a reset of its slot directly followed
\* by a precise begin of the same slot, both in the batch of the tick the
\* counter stores; EndQuery appends exactly one end of that slot. So in the
\* recorded stream every begin directly follows a reset of its slot and a
\* counter's end never comes before its begin.
C15_ResetBeginEnd ==
    /\ []StreamWellFormed
    /\ [][\A c \in CounterIds :
             /\ ConstructStep(c) =>
                    LET q == counters'[c].query
                        t == counters'[c].tick
                    IN  stream' = stream \o
                           <<Cmd("ResetQueryPool", c, q, t),
                             [Cmd("BeginQuery", c, q, t) EXCEPT
                                 !.flags = {VK_QUERY_CONTROL_PRECISE_BIT}]>>
             /\ EndQueryStep(c) =>
                    /\ Len(stream') = Len(stream) + 1
                    /\ stream' = Append(stream, stream'[Len(stream')])
                    /\ stream'[Len(stream')].op = "EndQuery"
                    /\ stream'[Len(stream')].by = c
                    /\ stream'[Len(stream')].query = counters[c].query]_vars

\* C15 witness: the stream holds the reset, the begin and the end of one
\* counter, with the commands of another counter recorded in between.
C15_Witness ==
    \E c \in CounterIds, d \in CounterIds :
        \E b \in CmdsOf(stream, c, "BeginQuery"),
           e \in CmdsOf(stream, c, "EndQuery"),
           x \in CmdsOf(stream, d, "BeginQuery") :
              /\ stream[b - 1].op = "ResetQueryPool"
              /\ b < x /\ x < e

\* Flat indices of the used-bits that are set.
BitsSet(u) == {i \in 0..(Len(u) - 1) : u[i + 1]}

\* C16: destroying a counter, whose slot (container, offset) came from
\* Commit, clears exactly the used-bit at position(container) * GROW_STEP +
\* offset and leaves every other bit, the containers and the length of the
\* bit sequence unchanged; that bit is the one Commit set, the slot being
\* (index / GROW_STEP, index % GROW_STEP) of its flat index.
C16_ReserveClearsCommittedBit ==
    [][\A c \in CounterIds :
          /\ ConstructStep(c) =>
                 LET q == counters'[c].query
                     k == FlatIndex(pools', q)
                 IN  /\ k \notin BitsSet(usage)
                     /\ BitsSet(usage') = BitsSet(usage) \cup {k}
                     /\ q = <<pools'[(k \div GROW_STEP) + 1], k % GROW_STEP>>
          /\ DestroyStep(c) =>
                 LET q == counters[c].query
                     k == FlatIndex(pools, q)
                 IN  /\ q = <<pools[(k \div GROW_STEP) + 1], k % GROW_STEP>>
                     /\ k \in BitsSet(usage)
                     /\ BitsSet(usage') = BitsSet(usage) \ {k}
                     /\ Len(usage') = Len(usage)
                     /\ pools' = pools
                     /\ query_counts' = query_counts
                     /\ ~fatal'
          /\ (Live(c) /\ Live(c)') =>
                 /\ counters'[c].query = counters[c].query
                 /\ FlatIndex(pools', counters'[c].query)
                        = FlatIndex(pools, counters[c].query)]_vars

\* C16 witness: a counter with a slot of the second container, at an offset
\* that is also in use in the first container, has been destroyed; the bit
\* of its slot is clear and the bit of the same offset in the first
\* container is still set.
C16_Witness ==
    /\ Len(pools) = 2
    /\ \E c \in CounterIds : reserves[c] = <<"Destroy">>
    /\ \E o \in 0..(GROW_STEP - 1) :
           /\ usage[o + 1]
           /\ ~usage[GROW_STEP + o + 1]
           /\ ticks[GROW_STEP + o + 1] # 0
           /\ \A d \in LiveCounters :
                  FlatIndex(pools, counters[d].query) < GROW_STEP

\* A step of BlockingQuery: the call up to the fetch, or the fetch returning
\* and the switch on its status running.
BlockingQueryCallStep == bq.pc = "idle" /\ bq'.pc = "fetch"
BlockingQueryReturnStep == bq.pc = "fetch" /\ bq'.pc = "done"

\* The bookkeeping of the pool and the fields of every counter stay as they
\* are in a step.
PoolUntouched ==
    /\ usage' = usage
    /\ pools' = pools
    /\ query_counts' = query_counts
    /\ ticks' = ticks
    /\ free_iterator' = free_iterator
    /\ \A c \in CounterIds :
           /\ counters'[c].query = counters[c].query
           /\ counters'[c].tick = counters[c].tick
           /\ Live(c) => /\ Live(c)'
                         /\ usage'[FlatIndex(pools', counters'[c].query) + 1]

\* C17: EndQuery and BlockingQuery, whether it returns a value or throws,
\* change no used-bit, add no container and keep every counter's slot and
\* tick, so the slot stays used while its counter lives; EndQuery moreover
\* does not flush (the current tick stays) and does not fetch.
C17_QueriesLeavePoolAlone ==
    [][/\ (\E c \in CounterIds : EndQueryStep(c)) =>
             /\ PoolUntouched
             /\ current_tick' = current_tick
             /\ bq' = bq
       /\ (BlockingQueryCallStep \/ BlockingQueryReturnStep) => PoolUntouched]_vars

\* C17 witness: a BlockingQuery on an ended counter has thrown, another on a
\* counter has returned (the counter is resolved), and both counters still
\* hold their slots.
C17_Witness ==
    /\ bq.pc = "done"
    /\ bq.thrown # "none"
    /\ counters[bq.ctr].st = "Ended"
    /\ usage[FlatIndex(pools, counters[bq.ctr].query) + 1]
    /\ \E d \in CounterIds :
           /\ counters[d].st = "Resolved"
           /\ usage[FlatIndex(pools, counters[d].query) + 1]

\* BlockingQuery is blocked in the fetch on a counter whose EndQuery has
\* been called.
FetchingEnded == bq.pc = "fetch" /\ counters[bq.ctr].st = "Ended"

\* C18: a BlockingQuery on a counter whose EndQuery has been called
\* eventually returns a value or throws, given a device that eventually
\* executes every submitted batch and no unsubmitted command.
C18_BlockingQueryReturns == FetchingEnded ~> bq.pc = "done"

\* The ticks of the counters are not ahead of the scheduler, and a
\* BlockingQuery in progress or returned has left its counter's tick behind.
TicksBehind ==
    /\ \A c \in LiveCounters : counters[c].tick \in 1..current_tick
    /\ \A c \in CounterIds :
           counters[c].st = "Resolved" => counters[c].tick < current_tick
    /\ bq.pc # "idle" =>
           /\ bq.tick = counters[bq.ctr].tick
           /\ bq.flushed <=> (bq.tick = bq.cur)
           /\ ~bq.flushed <=> (bq.tick < bq.cur)
           /\ current_tick = IF bq.flushed THEN bq.cur + 1 ELSE bq.cur
           /\ counters[bq.ctr].tick < current_tick

\* C19: a counter's tick is the scheduler's current tick when the counter is
\* constructed, it does not change while the counter lives and the current
\* tick never goes back, so the tick is never greater than the current tick;
\* BlockingQuery flushes exactly when the two are equal, and once it has
\* been called the counter's tick is strictly older than the current tick.
C19_TickNeverAhead ==
    /\ []TicksBehind
    /\ [][/\ current_tick' >= current_tick
          /\ \A c \in CounterIds :
                 /\ ConstructStep(c) =>
                        /\ counters'[c].tick = current_tick
                        /\ current_tick' = current_tick
                 /\ (Live(c) /\ Live(c)') => counters'[c].tick = counters[c].tick
          /\ BlockingQueryCallStep =>
                 LET t == counters[bq'.ctr].tick
                 IN  /\ t = current_tick => current_tick' = current_tick + 1
                     /\ t < current_tick => current_tick' = current_tick]_vars

\* C19 witness: a BlockingQuery on a counter recorded in the current tick
\* has flushed and returned; the counter's tick is now one behind.
C19_Witness ==
    /\ bq.pc = "done"
    /\ bq.flushed
    /\ bq.tick = bq.cur
    /\ counters[bq.ctr].tick = current_tick - 1
    /\ \E d \in LiveCounters \ {bq.ctr} : counters[d].tick = counters[bq.ctr].tick

====
